---------------------------- MODULE Spec2Model ----------------------------
(***************************************************************************)
(* SPDX license expressions: SpdxExpression::parse, its Display and        *)
(* SpdxExpression::licenses (src/src/expression.rs), over the expression   *)
(* tree, parser and printer of ExpressionVariant (spec.md 3, 4.1, 4.2).    *)
(*                                                                         *)
(* A string is a sequence of one-character strings, so that tokenizing,    *)
(* rendering, whitespace splitting and parenthesis stripping are computed  *)
(* character by character.                                                 *)
(***************************************************************************)
EXTENDS Integers, Sequences, FiniteSets

VARIABLES tokens, spacing, input, pc, result, text, lics, again

vars == <<tokens, spacing, input, pc, result, text, lics, again>>

(***************************************************************************)
(* Bounds of the model.                                                    *)
(***************************************************************************)
\* Every sequence of at most MaxShort tokens of the core alphabet is an input.
MaxShort == 4
\* Every sequence of at most MaxWide tokens of the wide alphabet is an input.
MaxWide == 3
\* Every valid expression of at most MaxOps operators and parenthesis pairs
\* is an input.
MaxOps == 3

(***************************************************************************)
(* Characters and strings.                                                 *)
(***************************************************************************)
Upper ==
    << "A", "B", "C", "D", "E", "F", "G", "H", "I", "J", "K", "L", "M",
       "N", "O", "P", "Q", "R", "S", "T", "U", "V", "W", "X", "Y", "Z" >>
Lower ==
    << "a", "b", "c", "d", "e", "f", "g", "h", "i", "j", "k", "l", "m",
       "n", "o", "p", "q", "r", "s", "t", "u", "v", "w", "x", "y", "z" >>
Digit == << "0", "1", "2", "3", "4", "5", "6", "7", "8", "9" >>

Range(s) == {s[i] : i \in DOMAIN s}
Index(s, c) == CHOOSE i \in DOMAIN s : s[i] = c

Letters == Range(Upper) \cup Range(Lower)
Digits == Range(Digit)
Chars == Letters \cup Digits \cup {"\t", " ", "(", ")", "+", "-", ".", ":", "_"}

\* The byte of a character (ASCII): what the Ord of str compares.
ByteOf ==
    [c \in Chars |->
        CASE c \in Range(Upper) -> 64 + Index(Upper, c)
          [] c \in Range(Lower) -> 96 + Index(Lower, c)
          [] c \in Range(Digit) -> 47 + Index(Digit, c)
          [] c = "\t" -> 9
          [] c = " " -> 32
          [] c = "(" -> 40
          [] c = ")" -> 41
          [] c = "+" -> 43
          [] c = "-" -> 45
          [] c = "." -> 46
          [] c = ":" -> 58
          [] c = "_" -> 95]

\* u8::is_ascii_whitespace, on the characters of the model.
IsAsciiWhitespace(c) == c \in {" ", "\t"}

IdChars == Letters \cup Digits \cup {".", "-", "+"}

StartsWith(s, p) == Len(s) >= Len(p) /\ SubSeq(s, 1, Len(p)) = p

Min(S) == CHOOSE x \in S : \A y \in S : x <= y

\* Lexicographic byte order of two strings, the Ord of String: the first
\* differing byte decides, and a proper prefix is less.
StrLess(a, b) ==
    LET n == IF Len(a) < Len(b) THEN Len(a) ELSE Len(b)
        differ == {i \in 1..n : a[i] # b[i]}
    IN  IF differ = {} THEN Len(a) < Len(b)
        ELSE ByteOf[a[Min(differ)]] < ByteOf[b[Min(differ)]]

(***************************************************************************)
(* The words of the language.                                              *)
(***************************************************************************)
KwAnd == <<"A", "N", "D">>
KwOr == <<"O", "R">>
KwWith == <<"W", "I", "T", "H">>
LParen == <<"(">>
RParen == <<")">>
NONE == <<"N", "O", "N", "E">>
NOASSERTION == <<"N", "O", "A", "S", "S", "E", "R", "T", "I", "O", "N">>
MIT == <<"M", "I", "T">>
none == <<"n", "o", "n", "e">>
\* The identifiers of the tests and examples of src/src/expression.rs.
ISC ==
    << "I", "S", "C" >>
Apache20 ==
    << "A", "p", "a", "c", "h", "e", "-", "2", ".", "0" >>
GPL20only ==
    << "G", "P", "L", "-", "2", ".", "0", "-", "o", "n", "l", "y" >>
ClasspathException20 ==
    << "C", "l", "a", "s", "s", "p", "a", "t", "h", "-", "e", "x", "c",
       "e", "p", "t", "i", "o", "n", "-", "2", ".", "0" >>
InvalidLicenseId ==
    << "I", "n", "v", "a", "l", "i", "d", "L", "i", "c", "e", "n", "s",
       "e", "I", "d" >>
\* A token that is no identifier: "_" is not an identifier character.
BadId == <<"M", "_", "T">>
DocumentRefPrefix == <<"D", "o", "c", "u", "m", "e", "n", "t", "R", "e", "f", "-">>
LicenseRefPrefix == <<"L", "i", "c", "e", "n", "s", "e", "R", "e", "f", "-">>
DocRefId == DocumentRefPrefix \o <<"a", ":">> \o LicenseRefPrefix \o <<"b">>

Keywords == {KwAnd, KwOr, KwWith}
ParenTokens == {LParen, RParen}

(***************************************************************************)
(* The tokenizer (spec.md 4.1): split on whitespace; "(" and ")" are       *)
(* tokens of their own even when no whitespace separates them.             *)
(***************************************************************************)
\* The first position from i on where a character of `breaks` stands, or
\* Len(s) + 1.
NextBreak(s, i, breaks) ==
    LET at == {j \in i..Len(s) : s[j] \in breaks}
    IN  IF at = {} THEN Len(s) + 1 ELSE Min(at)

Whitespace == {c \in Chars : IsAsciiWhitespace(c)}

RECURSIVE TokenizeFrom(_, _, _)
TokenizeFrom(s, i, out) ==
    IF i > Len(s) THEN out
    ELSE IF IsAsciiWhitespace(s[i]) THEN TokenizeFrom(s, i + 1, out)
    ELSE IF s[i] \in {"(", ")"} THEN TokenizeFrom(s, i + 1, Append(out, <<s[i]>>))
    ELSE LET j == NextBreak(s, i, Whitespace \cup {"(", ")"})
         IN  TokenizeFrom(s, j, Append(out, SubSeq(s, i, j - 1)))

Tokenize(s) == TokenizeFrom(s, 1, <<>>)

\* A string of identifier characters: letters, digits, ".", "-", "+".
IsIdString(t) == t # <<>> /\ \A i \in DOMAIN t : t[i] \in IdChars

\* DocumentRef-<idstring>:LicenseRef-<idstring>
IsDocumentRef(t) ==
    \E k \in DOMAIN t :
        /\ t[k] = ":"
        /\ StartsWith(SubSeq(t, 1, k - 1), DocumentRefPrefix)
        /\ IsIdString(SubSeq(t, Len(DocumentRefPrefix) + 1, k - 1))
        /\ StartsWith(SubSeq(t, k + 1, Len(t)), LicenseRefPrefix)
        /\ IsIdString(SubSeq(t, k + 1 + Len(LicenseRefPrefix), Len(t)))

\* An identifier token: any token of identifier shape that is not one of the
\* exact-case reserved words AND, OR, WITH. No license list is consulted.
IsIdentifier(t) == t \notin Keywords /\ (IsIdString(t) \/ IsDocumentRef(t))

(***************************************************************************)
(* The expression tree (spec.md 3).  A compound node carries the flag      *)
(* "grouped": it was written with parentheses of its own.                  *)
(***************************************************************************)
NoAssertionNode == [k |-> "NoAssertion"]
NoneNode == [k |-> "None"]
License(id) == [k |-> "License", identifier |-> id]
And(l, r) == [k |-> "And", left |-> l, right |-> r, grouped |-> FALSE]
Or(l, r) == [k |-> "Or", left |-> l, right |-> r, grouped |-> FALSE]
With(l, e) == [k |-> "With", license |-> l, exception |-> e, grouped |-> FALSE]

IsCompound(n) == n.k \in {"And", "Or", "With"}

\* The tag of an Atom that consumed "( expr )": a compound node records it,
\* a constant or a License has nowhere to record it.
Grouped(n) == IF IsCompound(n) THEN [n EXCEPT !.grouped = TRUE] ELSE n

(***************************************************************************)
(* The parser (spec.md 4.1): recursive descent over the tokens.  A step    *)
(* returns the node it built and the position of the next token, or the    *)
(* error; an error discards whatever was built.                            *)
(***************************************************************************)
Built(n, i) == [ok |-> TRUE, node |-> n, next |-> i]
Failed(what, i) == [ok |-> FALSE, err |-> [what |-> what, at |-> i]]

\* A bare token in atom position.
Leaf(t) ==
    IF t = NONE THEN NoneNode
    ELSE IF t = NOASSERTION THEN NoAssertionNode
    ELSE License(t)

\* The binary operators by precedence level, loosest first: 1 is OR, 2 is
\* AND; level 3 is the with-expression.
LevelKeyword(level) == IF level = 1 THEN KwOr ELSE KwAnd
LevelNode(level, l, r) == IF level = 1 THEN Or(l, r) ELSE And(l, r)

RECURSIVE ParseAtom(_, _), ParseLevel(_, _, _), ParseRest(_, _, _, _)

\* Atom: "(" expr ")", NONE, NOASSERTION or an identifier.
ParseAtom(toks, i) ==
    IF i > Len(toks) THEN Failed("unexpected end of input", i)
    ELSE IF toks[i] = LParen THEN
        LET r == ParseLevel(1, toks, i + 1)
        IN  IF ~r.ok THEN r
            ELSE IF r.next > Len(toks) THEN Failed("unmatched parenthesis", i)
            ELSE IF toks[r.next] # RParen THEN Failed("expected )", r.next)
            ELSE Built(Grouped(r.node), r.next + 1)
    ELSE IF toks[i] = RParen THEN Failed("unexpected )", i)
    ELSE IF toks[i] \in Keywords THEN Failed("operator where an atom was expected", i)
    ELSE IF IsIdentifier(toks[i]) THEN Built(Leaf(toks[i]), i + 1)
    ELSE Failed("invalid identifier", i)

\* With-expression: Atom ["WITH" identifier]; the exception is one bare
\* identifier token.
ParseWith(toks, i) ==
    LET a == ParseAtom(toks, i)
    IN  IF ~a.ok THEN a
        ELSE IF a.next > Len(toks) \/ toks[a.next] # KwWith THEN a
        ELSE IF a.next + 1 > Len(toks) THEN Failed("unexpected end of input", a.next + 1)
        ELSE IF IsIdentifier(toks[a.next + 1])
            THEN Built(With(a.node, toks[a.next + 1]), a.next + 2)
        ELSE Failed("exception identifier expected", a.next + 1)

\* A left-associative chain of operands of the next tighter level.
ParseLevel(level, toks, i) ==
    IF level = 3 THEN ParseWith(toks, i)
    ELSE LET l == ParseLevel(level + 1, toks, i)
         IN  IF ~l.ok THEN l ELSE ParseRest(level, toks, l.node, l.next)

ParseRest(level, toks, left, i) ==
    IF i > Len(toks) \/ toks[i] # LevelKeyword(level) THEN Built(left, i)
    ELSE LET r == ParseLevel(level + 1, toks, i + 1)
         IN  IF ~r.ok THEN r
             ELSE ParseRest(level, toks, LevelNode(level, left, r.node), r.next)

\* ExpressionVariant::parse: the whole input is one expression.
ExpressionVariantParse(s) ==
    LET toks == Tokenize(s)
        r == ParseLevel(1, toks, 1)
    IN  IF ~r.ok THEN r
        ELSE IF r.next <= Len(toks) THEN Failed("unexpected token", r.next)
        ELSE r

(***************************************************************************)
(* The printer (spec.md 4.2): a node is wrapped in parentheses when its    *)
(* operator binds less tightly than its place requires, or when it is      *)
(* tagged grouped.                                                         *)
(***************************************************************************)
Prec(n) ==
    CASE n.k = "Or" -> 1
      [] n.k = "And" -> 2
      [] n.k = "With" -> 3
      [] OTHER -> 4

RECURSIVE Render(_, _)
Render(n, ctx) ==
    LET body ==
            CASE n.k = "None" -> NONE
              [] n.k = "NoAssertion" -> NOASSERTION
              [] n.k = "License" -> n.identifier
              [] n.k = "Or" ->
                    Render(n.left, 1) \o <<" ">> \o KwOr \o <<" ">> \o Render(n.right, 2)
              [] n.k = "And" ->
                    Render(n.left, 2) \o <<" ">> \o KwAnd \o <<" ">> \o Render(n.right, 3)
              [] n.k = "With" ->
                    Render(n.license, 4) \o <<" ">> \o KwWith \o <<" ">> \o n.exception
    IN  IF Prec(n) < ctx \/ (IsCompound(n) /\ n.grouped)
        THEN <<"(">> \o body \o <<")">>
        ELSE body

\* Display for ExpressionVariant.
ExpressionVariantDisplay(n) == Render(n, 1)

(***************************************************************************)
(* SpdxExpression (src/src/expression.rs).                                 *)
(***************************************************************************)
\* Display of the inner parser error: its description and position.
ErrorToString(e) == <<e.what, e.at>>

\* str::to_ascii_uppercase
ToAsciiUppercase(s) ==
    [i \in DOMAIN s |->
        IF s[i] \in Range(Lower) THEN Upper[Index(Lower, s[i])] ELSE s[i]]

\* Mutant of SpdxParse: the input is upper-cased before it is parsed.
SpdxParseUppercased(expression) ==
    LET r == ExpressionVariantParse(ToAsciiUppercase(expression))
    IN  IF r.ok
        THEN [ok |-> TRUE, value |-> [inner |-> r.node]]
        ELSE [ok |-> FALSE, error |-> [kind |-> "Parse", msg |-> ErrorToString(r.err)]]

\* Mutant of SpdxParse: the inner error's text is dropped.
SpdxParseTextDropped(expression) ==
    LET r == ExpressionVariantParse(expression)
    IN  IF r.ok
        THEN [ok |-> TRUE, value |-> [inner |-> r.node]]
        ELSE [ok |-> FALSE, error |-> [kind |-> "Parse", msg |-> <<>>]]

\* SpdxExpression::parse: the inner tree wrapped, or the inner error's text
\* wrapped in SpdxExpressionError::Parse.
SpdxParse(expression) ==
    LET r == ExpressionVariantParse(expression)
    IN  IF r.ok
        THEN [ok |-> TRUE, value |-> [inner |-> r.node]]
        ELSE [ok |-> FALSE, error |-> [kind |-> "Parse", msg |-> ErrorToString(r.err)]]

\* Mutant of to_string: the rendering loses its parentheses.
to_string_flat(e) ==
    SelectSeq(ExpressionVariantDisplay(e.inner), LAMBDA c : c # "(" /\ c # ")")

\* Mutant of to_string: the rendering is wrapped in parentheses.
to_string_wrapped(e) == <<"(">> \o ExpressionVariantDisplay(e.inner) \o <<")">>

\* Display for SpdxExpression: write!(f, "{}", self.inner).
to_string(e) == ExpressionVariantDisplay(e.inner)

\* str::split_ascii_whitespace: the maximal runs of non-whitespace.
RECURSIVE SplitFrom(_, _, _)
SplitFrom(s, i, out) ==
    IF i > Len(s) THEN out
    ELSE IF IsAsciiWhitespace(s[i]) THEN SplitFrom(s, i + 1, out)
    ELSE LET j == NextBreak(s, i, Whitespace)
         IN  SplitFrom(s, j, Append(out, SubSeq(s, i, j - 1)))

SplitAsciiWhitespace(s) == SplitFrom(s, 1, <<>>)

\* filter(|&i| i != "OR" && i != "AND" && i != "WITH")
NotKeyword(i) == i # KwOr /\ i # KwAnd /\ i # KwWith

\* Mutant of StripParens: the parentheses stay.
StripParensSkipped(i) == i

\* i.replace('(', "").replace(')', "")
StripParens(i) == SelectSeq(i, LAMBDA c : c # "(" /\ c # ")")

\* sort_unstable: the elements in ascending order (insertion into a sorted
\* prefix; equal strings are indistinguishable, so stability is moot).
RECURSIVE InsertSorted(_, _)
InsertSorted(sorted, x) ==
    IF sorted = <<>> THEN <<x>>
    ELSE IF StrLess(x, Head(sorted)) THEN <<x>> \o sorted
    ELSE <<Head(sorted)>> \o InsertSorted(Tail(sorted), x)

RECURSIVE SortUnstable(_)
SortUnstable(v) ==
    IF v = <<>> THEN <<>> ELSE InsertSorted(SortUnstable(Tail(v)), Head(v))

\* Mutant of Dedup: no element is removed.
DedupSkipped(v) == v

\* Vec::dedup: consecutive equal elements collapse to the first.
RECURSIVE Dedup(_)
Dedup(v) ==
    IF Len(v) <= 1 THEN v
    ELSE IF v[1] = v[2] THEN Dedup(Tail(v))
    ELSE <<Head(v)>> \o Dedup(Tail(v))

\* SpdxExpression::licenses
Licenses(e) ==
    LET expression_string == to_string(e)
        split == SplitAsciiWhitespace(expression_string)
        filtered == SelectSeq(split, NotKeyword)
        mapped == [i \in DOMAIN filtered |-> StripParens(filtered[i])]
    IN  Dedup(SortUnstable(mapped))

(***************************************************************************)
(* The inputs.  An input is written from a sequence of tokens in one of    *)
(* two spacings; what the program receives is the string.                  *)
(***************************************************************************)
\* Canonical: one space between tokens, none inside parentheses.
\* Irregular: whitespace at both ends, a space and a tab between tokens and
\* after "(", and nothing before a parenthesis or after ")".
Spacings == {"canonical", "irregular"}

Gap(a, b, sp) ==
    CASE sp = "canonical" -> IF a = LParen \/ b = RParen THEN <<>> ELSE <<" ">>
      [] sp = "irregular" -> IF b \in ParenTokens \/ a = RParen THEN <<>> ELSE <<" ", "\t">>

RECURSIVE WriteFrom(_, _, _)
WriteFrom(toks, i, sp) ==
    IF i > Len(toks) THEN <<>>
    ELSE IF i = Len(toks) THEN toks[i]
    ELSE toks[i] \o Gap(toks[i], toks[i + 1], sp) \o WriteFrom(toks, i + 1, sp)

Write(toks, sp) ==
    IF sp = "irregular" THEN <<"\t", " ">> \o WriteFrom(toks, 1, sp) \o <<" ">>
    ELSE WriteFrom(toks, 1, sp)

\* The tokens of the short inputs: every sequence of them is tried, valid
\* or not.
CoreAlphabet == {MIT, NONE} \cup Keywords \cup ParenTokens
WideAlphabet == CoreAlphabet \cup {none, NOASSERTION, BadId, DocRefId}

RECURSIVE SeqsUpTo(_, _)
SeqsUpTo(S, n) ==
    IF n = 0 THEN {<<>>}
    ELSE LET shorter == SeqsUpTo(S, n - 1)
         IN  shorter \cup {Append(q, x) : q \in {r \in shorter : Len(r) = n - 1}, x \in S}

ShortInputs == SeqsUpTo(CoreAlphabet, MaxShort) \cup SeqsUpTo(WideAlphabet, MaxWide)

\* The atoms of the longer, valid inputs.
ValidAtoms == {MIT, none}

\* The token sequences of the grammar of spec.md 4.1 by the number n of
\* operators and parenthesis pairs in them: g.or[n + 1] holds the
\* or-expressions of n constructs, and so on for the other three levels.
Joined(ls, kw, rs) == {l \o <<kw>> \o r : l \in ls, r \in rs}

\* The joins of ls[i] with rs[Len(rs) + 1 - i], for i up to n.
RECURSIVE JoinedAll(_, _, _, _)
JoinedAll(ls, kw, rs, i) ==
    IF i = 0 THEN {}
    ELSE Joined(ls[i], kw, rs[Len(rs) + 1 - i]) \cup JoinedAll(ls, kw, rs, i - 1)

RECURSIVE UnionAll(_, _)
UnionAll(ss, i) == IF i = 0 THEN {} ELSE ss[i] \cup UnionAll(ss, i - 1)

RECURSIVE Grammar(_, _)
Grammar(g, n) ==
    IF n > MaxOps THEN g
    ELSE LET atom == IF n = 0 THEN {<<a>> : a \in ValidAtoms}
                     ELSE {<<LParen>> \o e \o <<RParen>> : e \in g.or[n]}
             with == atom \cup
                     (IF n = 0 THEN {}
                      ELSE Joined(g.atom[n], KwWith, {<<x>> : x \in ValidAtoms}))
             and == with \cup JoinedAll(g.and, KwAnd, g.with, n)
             or == and \cup JoinedAll(g.or, KwOr, g.and, n)
         IN  Grammar([atom |-> Append(g.atom, atom), with |-> Append(g.with, with),
                      and |-> Append(g.and, and), or |-> Append(g.or, or)], n + 1)

ValidInputs ==
    LET g == Grammar([atom |-> <<>>, with |-> <<>>, and |-> <<>>, or |-> <<>>], 0)
    IN  UnionAll(g.or, Len(g.or))

\* The inputs of the tests and examples of src/src/expression.rs.
TestParsingWorks == <<MIT, KwAnd, LParen, Apache20, KwOr, ISC, RParen>>
TestCompoundOr == <<MIT, KwOr, Apache20>>
TestCompoundParentheses ==
    <<LParen, MIT, KwOr, Apache20, KwAnd, LParen, GPL20only, KwWith,
      ClasspathException20, KwOr, ISC, RParen, RParen>>
ExampleInvalidLicenseId == <<MIT, KwOr, InvalidLicenseId>>
TestInputs ==
    {<<MIT>>, TestParsingWorks, TestCompoundOr, TestCompoundParentheses,
     ExampleInvalidLicenseId}

Inputs == ShortInputs \cup ValidInputs \cup TestInputs

(***************************************************************************)
(* One run of a caller: parse the input, render the expression, extract    *)
(* its licenses, parse the rendering again.                                *)
(***************************************************************************)
NotCalled == [ok |-> FALSE, error |-> [kind |-> "NotCalled", msg |-> <<>>]]

Init ==
    /\ tokens \in Inputs
    /\ spacing \in Spacings
    /\ input = Write(tokens, spacing)
    /\ pc = "start"
    /\ result = NotCalled
    /\ text = <<>>
    /\ lics = <<>>
    /\ again = NotCalled

\* SpdxExpression::parse(input)
Parse ==
    /\ pc = "start"
    /\ result' = SpdxParse(input)
    /\ pc' = IF result'.ok THEN "parsed" ELSE "failed"
    /\ UNCHANGED <<tokens, spacing, input, text, lics, again>>

\* expression.to_string()
Display ==
    /\ pc = "parsed"
    /\ text' = to_string(result.value)
    /\ pc' = "rendered"
    /\ UNCHANGED <<tokens, spacing, input, result, lics, again>>

\* expression.licenses()
GetLicenses ==
    /\ pc = "rendered"
    /\ lics' = Licenses(result.value)
    /\ pc' = "extracted"
    /\ UNCHANGED <<tokens, spacing, input, result, text, again>>

\* SpdxExpression::parse(expression.to_string())
Reparse ==
    /\ pc = "extracted"
    /\ again' = SpdxParse(text)
    /\ pc' = "reparsed"
    /\ UNCHANGED <<tokens, spacing, input, result, text, lics>>

Next == Parse \/ Display \/ GetLicenses \/ Reparse

Spec == Init /\ [][Next]_vars

(***************************************************************************)
(* What the properties speak of.                                           *)
(***************************************************************************)
HasParsed == pc \in {"parsed", "rendered", "extracted", "reparsed"}
HasRendered == pc \in {"rendered", "extracted", "reparsed"}
HasExtracted == pc \in {"extracted", "reparsed"}

\* The tokens the inputs use as well-formed identifiers and constants.
AtomTokens ==
    {MIT, none, NONE, NOASSERTION, DocRefId, ISC, Apache20, GPL20only,
     ClasspathException20, InvalidLicenseId}
LicenseIds == {MIT, none, DocRefId}
IsAtomToken(t) == t \notin Keywords /\ t \notin ParenTokens

\* Validity by the grammar alone: the sequence, every atom read as MIT, is
\* one the grammar generates.
IsValidSeq(toks) ==
    /\ Len(toks) <= 2 * MaxOps + 1
    /\ toks # <<>>
    /\ [i \in DOMAIN toks |-> IF toks[i] \in AtomTokens THEN MIT ELSE toks[i]]
            \in ValidInputs

Count(toks, t, i) == Cardinality({j \in 1..i : toks[j] = t})
Depth(toks, i) == Count(toks, LParen, i) - Count(toks, RParen, i)
\* The ")" that closes the "(" at i, in a balanced sequence.
Match(toks, i) == Min({j \in (i + 1)..Len(toks) : Depth(toks, j) = Depth(toks, i) - 1})

\* The nodes of a tree.
RECURSIVE Nodes(_)
Nodes(n) ==
    {n} \cup
    CASE n.k \in {"And", "Or"} -> Nodes(n.left) \cup Nodes(n.right)
      [] n.k = "With" -> Nodes(n.license)
      [] OTHER -> {}

\* A tree without its grouping tags.
RECURSIVE Shape(_)
Shape(n) ==
    CASE n.k \in {"And", "Or"} -> [k |-> n.k, left |-> Shape(n.left), right |-> Shape(n.right)]
      [] n.k = "With" -> [k |-> n.k, license |-> Shape(n.license), exception |-> n.exception]
      [] OTHER -> n

\* The set S of strings as the strictly increasing sequence of its elements.
RECURSIVE SortedSeq(_)
SortedSeq(S) ==
    IF S = {} THEN <<>>
    ELSE LET m == CHOOSE x \in S : \A y \in S \ {x} : StrLess(x, y)
         IN  <<m>> \o SortedSeq(S \ {m})

(***************************************************************************)
(* C1: the result of licenses() is strictly increasing in byte order:      *)
(* sorted, and no element twice, however often an identifier occurs in     *)
(* the expression.                                                         *)
(***************************************************************************)
C1_LicensesStrictlyIncreasing ==
    HasExtracted =>
        \A i, j \in DOMAIN lics : i < j => StrLess(lics[i], lics[j])

\* MIT OR MIT AND (MIT) yields the single element MIT.
C1_Witness ==
    /\ pc = "extracted"
    /\ input = Write(<<MIT, KwOr, MIT, KwAnd, LParen, MIT, RParen>>, "canonical")
    /\ lics = <<MIT>>

(***************************************************************************)
(* C2: for an expression without the constants NONE and NOASSERTION, the   *)
(* text-based licenses() equals the structural walk of the tree (every     *)
(* License identifier and every WITH exception, sorted and deduplicated),  *)
(* and no element is an operator keyword or contains a parenthesis.        *)
(***************************************************************************)
RECURSIVE Identifiers(_)
Identifiers(n) ==
    CASE n.k = "License" -> {n.identifier}
      [] n.k = "With" -> Identifiers(n.license) \cup {n.exception}
      [] n.k \in {"And", "Or"} -> Identifiers(n.left) \cup Identifiers(n.right)
      [] OTHER -> {}

HasConstant(n) == \E m \in Nodes(n) : m.k \in {"None", "NoAssertion"}

C2_LicensesEqualStructuralWalk ==
    (HasExtracted /\ ~HasConstant(result.value.inner)) =>
        /\ lics = SortedSeq(Identifiers(result.value.inner))
        /\ \A i \in DOMAIN lics :
                /\ lics[i] \notin Keywords
                /\ Range(lics[i]) \cap {"(", ")"} = {}

\* test_licenses_from_compound_parentheses_expression: parentheses two
\* deep, a WITH exception, and the five identifiers in byte order.
C2_Witness ==
    /\ pc = "extracted"
    /\ tokens = TestCompoundParentheses
    /\ lics = <<Apache20, ClasspathException20, GPL20only, ISC, MIT>>

(***************************************************************************)
(* C3: licenses() never returns the reserved constants NONE or             *)
(* NOASSERTION.                                                            *)
(***************************************************************************)
C3_NeverReturnsConstants ==
    HasExtracted => Range(lics) \cap {NONE, NOASSERTION} = {}


(***************************************************************************)
(* C4: round-trip stability: a valid expression in canonical spacing       *)
(* parses, and its to_string() is the input.                               *)
(***************************************************************************)
\* As claimed, for every valid canonical string.
C4_RoundTrip ==
    (pc # "start" /\ spacing = "canonical" /\ IsValidSeq(tokens)) =>
        /\ result.ok
        /\ HasRendered => text = input

\* No parenthesis pair around a single token, and none directly around
\* another pair.
NoRedundantParens(toks) ==
    \A i \in DOMAIN toks :
        toks[i] = LParen =>
            /\ Match(toks, i) # i + 2
            /\ ~(toks[i + 1] = LParen /\ Match(toks, i + 1) = Match(toks, i) - 1)

\* C4 as amended: round-trip stability for every valid canonical string
\* without redundant parentheses ("(MIT)" renders as "MIT", "((A OR B))" as "(A OR B)").
C4_RoundTripWithoutRedundantParens ==
    (pc # "start" /\ spacing = "canonical" /\ IsValidSeq(tokens)
        /\ NoRedundantParens(tokens)) =>
        /\ result.ok
        /\ HasRendered => text = input

\* test_parsing_works: MIT AND (Apache-2.0 OR ISC) renders as itself.
C4_Witness ==
    /\ pc = "rendered"
    /\ spacing = "canonical"
    /\ tokens = TestParsingWorks
    /\ text = input

(***************************************************************************)
(* C5: idempotent re-parse: parsing the rendering of a parsed expression   *)
(* succeeds and yields an equal SpdxExpression, grouping tags included,    *)
(* whatever the spacing of the input.                                      *)
(***************************************************************************)
C5_ReparseEqual ==
    pc = "reparsed" => (again.ok /\ again.value = result.value)

\* An irregularly spaced input with doubled parentheses, whose rendering
\* differs from it.
C5_Witness ==
    /\ pc = "reparsed"
    /\ spacing = "irregular"
    /\ tokens = <<LParen, LParen, MIT, KwOr, none, RParen, RParen>>
    /\ text # input
    /\ again.value.inner.grouped

(***************************************************************************)
(* C6: AND binds tighter than OR: A OR B AND C parses as OR(A, AND(B, C)), *)
(* A AND B OR C as OR(AND(A, B), C), and either renders as the input       *)
(* text, no parenthesis added.                                             *)
(***************************************************************************)
C6_AndOverOr ==
    \A a, b, c \in LicenseIds :
        /\ (pc # "start" /\ tokens = <<a, KwOr, b, KwAnd, c>>) =>
            /\ result.ok
            /\ result.value.inner = Or(License(a), And(License(b), License(c)))
            /\ HasRendered => text = Write(tokens, "canonical")
        /\ (pc # "start" /\ tokens = <<a, KwAnd, b, KwOr, c>>) =>
            /\ result.ok
            /\ result.value.inner = Or(And(License(a), License(b)), License(c))
            /\ HasRendered => text = Write(tokens, "canonical")

C6_Witness ==
    /\ pc = "rendered"
    /\ tokens = <<MIT, KwOr, none, KwAnd, MIT>>
    /\ result.value.inner.right.k = "And"
    /\ Range(text) \cap {"(", ")"} = {}

(***************************************************************************)
(* C7: WITH binds tighter than AND and OR: A WITH B OR C has the root OR   *)
(* over WITH(A, B) and C (likewise for AND), and the exception of every    *)
(* WITH node of a parsed tree is one bare identifier token of the input.   *)
(***************************************************************************)
IsBareToken(t) ==
    /\ t # <<>>
    /\ t \notin Keywords
    /\ \A i \in DOMAIN t : t[i] \in Chars \ {" ", "\t", "(", ")"}

C7_WithBindsTightest ==
    HasParsed =>
        /\ \A a, b, c \in LicenseIds :
            /\ tokens = <<a, KwWith, b, KwOr, c>> =>
                    result.value.inner = Or(With(License(a), b), License(c))
            /\ tokens = <<a, KwWith, b, KwAnd, c>> =>
                    result.value.inner = And(With(License(a), b), License(c))
        /\ \A m \in Nodes(result.value.inner) :
                m.k = "With" =>
                    /\ IsBareToken(m.exception)
                    /\ \E i \in DOMAIN tokens :
                            i > 1 /\ tokens[i - 1] = KwWith /\ tokens[i] = m.exception

C7_Witness ==
    /\ pc = "parsed"
    /\ tokens = <<MIT, KwWith, none, KwOr, MIT>>
    /\ result.value.inner.left.exception = none

(***************************************************************************)
(* C8: explicit grouping preserved: (A OR B) AND C renders as itself and   *)
(* does not equal the parse of A OR B AND C; the parentheses that          *)
(* precedence requires are re-emitted, so that the rendering parses to     *)
(* the same tree shape.                                                    *)
(***************************************************************************)
C8_GroupingPreserved ==
    /\ \A a, b, c \in LicenseIds :
            (HasRendered /\ tokens = <<LParen, a, KwOr, b, RParen, KwAnd, c>>) =>
                /\ text = Write(tokens, "canonical")
                /\ result.value.inner.k = "And"
                /\ result # SpdxParse(Write(<<a, KwOr, b, KwAnd, c>>, "canonical"))
    /\ pc = "reparsed" =>
            /\ again.ok
            /\ Shape(again.value.inner) = Shape(result.value.inner)

C8_Witness ==
    /\ pc = "reparsed"
    /\ spacing = "irregular"
    /\ tokens = <<LParen, MIT, KwOr, none, RParen, KwAnd, MIT>>
    /\ text = Write(tokens, "canonical")

(***************************************************************************)
(* C9: invalid syntax rejected: an input that ends with an operator, has   *)
(* an unmatched parenthesis, two consecutive operators, an operator where  *)
(* an atom is expected, two adjacent atoms or a trailing token yields      *)
(* SpdxExpressionError::Parse with the inner error's text and no           *)
(* SpdxExpression; every call returns Ok or that error.                    *)
(***************************************************************************)
EndsUnexpectedly(toks) == toks # <<>> /\ toks[Len(toks)] \in Keywords

UnmatchedParen(toks) ==
    \/ \E i \in DOMAIN toks : Depth(toks, i) < 0
    \/ Depth(toks, Len(toks)) # 0

ConsecutiveOperators(toks) ==
    \E i \in 1..(Len(toks) - 1) : toks[i] \in Keywords /\ toks[i + 1] \in Keywords

OperatorForAtom(toks) ==
    \/ toks # <<>> /\ toks[1] \in Keywords
    \/ \E i \in 1..(Len(toks) - 1) : toks[i] = LParen /\ toks[i + 1] \in Keywords

\* Two atoms side by side, a parenthesized group counting as an atom.
AdjacentAtoms(toks) ==
    \E i \in 1..(Len(toks) - 1) :
        /\ IsAtomToken(toks[i]) \/ toks[i] = RParen
        /\ IsAtomToken(toks[i + 1]) \/ toks[i + 1] = LParen

\* A token left over after a complete expression: a second WITH after a
\* with-expression, or a parenthesis in place of the exception.
TrailingToken(toks) ==
    \E i \in 1..(Len(toks) - 1) :
        /\ toks[i] = KwWith
        /\ toks[i + 1] \in ParenTokens \/ (i + 2 <= Len(toks) /\ toks[i + 2] = KwWith)

Malformed(toks) ==
    \/ EndsUnexpectedly(toks)
    \/ TrailingToken(toks)
    \/ UnmatchedParen(toks)
    \/ ConsecutiveOperators(toks)
    \/ OperatorForAtom(toks)
    \/ AdjacentAtoms(toks)

C9_InvalidSyntaxRejected ==
    pc # "start" =>
        /\ result.ok \/ result.error.kind = "Parse"
        /\ Malformed(tokens) =>
            /\ ~result.ok
            /\ DOMAIN result = {"ok", "error"}
            /\ ~ExpressionVariantParse(input).ok
            /\ result.error =
                    [kind |-> "Parse",
                     msg |-> ErrorToString(ExpressionVariantParse(input).err)]

\* MIT OR OR MIT fails at its third token.
C9_Witness ==
    /\ pc = "failed"
    /\ tokens = <<MIT, KwOr, KwOr, MIT>>
    /\ result.error.kind = "Parse"
    /\ result.error.msg[2] = 3

(***************************************************************************)
(* C10: unknown identifiers accepted: in a parsed expression, any license  *)
(* or exception identifier replaced by another identifier token that is    *)
(* not AND, OR or WITH parses again, to the same tree with that            *)
(* identifier in place; lower-case none is a License, not the constant.    *)
(***************************************************************************)
Replacements == {InvalidLicenseId, none, DocRefId, Apache20}

\* The identifier slots of a tree, left to right.
RECURSIVE Slots(_)
Slots(n) ==
    CASE n.k \in {"And", "Or"} -> Slots(n.left) + Slots(n.right)
      [] n.k = "With" -> Slots(n.license) + 1
      [] OTHER -> 1

\* The tree with the License id in its k-th slot.
RECURSIVE Put(_, _, _)
Put(n, k, id) ==
    CASE n.k \in {"And", "Or"} ->
            IF k <= Slots(n.left)
            THEN [n EXCEPT !.left = Put(n.left, k, id)]
            ELSE [n EXCEPT !.right = Put(n.right, k - Slots(n.left), id)]
      [] n.k = "With" ->
            IF k <= Slots(n.license)
            THEN [n EXCEPT !.license = Put(n.license, k, id)]
            ELSE [n EXCEPT !.exception = id]
      [] OTHER -> [k |-> "License", identifier |-> id]

\* Token i stands for a license or exception identifier, not a constant.
IsIdentifierAt(toks, i) ==
    /\ IsAtomToken(toks[i])
    /\ toks[i] \notin {NONE, NOASSERTION} \/ (i > 1 /\ toks[i - 1] = KwWith)

SlotOf(toks, i) == Cardinality({j \in 1..i : IsAtomToken(toks[j])})

C10_UnknownIdentifiersAccepted ==
    pc = "parsed" =>
        \A i \in DOMAIN tokens, id \in Replacements :
            IsIdentifierAt(tokens, i) =>
                LET replaced == SpdxParse(Write([tokens EXCEPT ![i] = id], spacing))
                IN  /\ replaced.ok
                    /\ replaced.value.inner =
                            Put(result.value.inner, SlotOf(tokens, i), id)

\* The example of the documentation: MIT OR InvalidLicenseId.
C10_Witness ==
    /\ pc = "parsed"
    /\ tokens = ExampleInvalidLicenseId
    /\ result.value.inner = Or(License(MIT), License(InvalidLicenseId))

====
